---- MODULE Spec2Model ----
(***************************************************************************)
(* Model of the forecast-correction engine of weather-ruretse:            *)
(*   features.py  - the observation-derived features (lags, rolling       *)
(*                  sums/maxima, running NWP bias)                         *)
(*   db.py        - the forecasts/observations tables and the paired join *)
(*   collector.py - the three writers of the forecasts table               *)
(*   models.py    - WeatherPredictor / PrecipitationPredictor              *)
(*   train.py, predict.py, startup.py, wsgi.py, gunicorn.conf.py -        *)
(*                  the processes that train, save, load and predict      *)
(* Each subsystem has its own specification over the shared variables.    *)
(***************************************************************************)
EXTENDS Integers, Sequences, FiniteSets, TLC

VARIABLES
    df,            \* features.py: the time-indexed input table (rows in time order)
    feat,          \* features.py: the table after build_feature_set (<<>> before)
    forecasts,     \* db.py: forecasts table, key <<fetched_at, valid_time, source>> -> value
    observations,  \* db.py: observations table, time -> value
    clock,         \* collector.py: datetime.now() as a tick counter
    paired,        \* db.py: the frame returned by the last load_paired_data
    pp,            \* models.py: a PrecipitationPredictor object
    ppBundle,      \* models.py: what PrecipitationPredictor.save last dumped
    ppOut,         \* models.py: outcome of the last PrecipitationPredictor.predict
    ppTrain,       \* models.py: the train call that made the object, when it began on a fresh one and returned
    wp,            \* models.py: a WeatherPredictor object
    wpBundle,      \* models.py: what WeatherPredictor.save last dumped
    wpOut,         \* models.py: outcome of the last WeatherPredictor.predict
    wpTrain,       \* models.py: the train call that made the object, when it began on a fresh one and returned
    pc,            \* wsgi.py/startup.py/train.py/predict.py: where each gunicorn worker is
    obsRows,       \* startup.py: SELECT COUNT(*) FROM observations
    fcstRows,      \* startup.py: SELECT COUNT(*) FROM forecasts
    files,         \* config.py: MODEL_PATH, PRECIP_MODEL_PATH and latest_forecast.json on disk
    trainRows,     \* train.py: len(df) of each worker's train.main (-1 before the load)
    featBuilt,     \* train.py: whether the worker's train.main has engineered features
    wrote,         \* train.py: the bundle files the worker's train.main has opened for writing
    loaded,        \* predict.py, serve.py: what the loads of the worker's predict.main and its last load_forecast found at the paths
    prep,          \* train.py: the table of train.main from build_feature_set to the split
    disk,          \* config.py: the bundle files and latest_forecast.json, with what they hold and whether one run wrote both bundles
    job,           \* train.py/predict.py/collector.py/startup.py/background.py: the record of the last run and what its caller does next
    fn             \* features.py, collector.py: a call of get_feature_columns or _chunked_fetch, its arguments and its result

featVars == <<df, feat>>
dbVars == <<forecasts, observations, clock, paired>>
precipVars == <<pp, ppBundle, ppOut, ppTrain>>
weatherVars == <<wp, wpBundle, wpOut, wpTrain>>
deployVars == <<pc, obsRows, fcstRows, files, trainRows, featBuilt, wrote, loaded>>

prepVars == <<prep>>

jobVars == <<disk, job>>

fnVars == <<fn>>

vars == <<featVars, dbVars, precipVars, weatherVars, deployVars, prepVars, jobVars, fnVars>>

\* what the actions of one subsystem leave alone
notFeat == <<dbVars, precipVars, weatherVars, deployVars, prepVars, jobVars, fnVars>>
notDb == <<featVars, precipVars, weatherVars, deployVars, prepVars, jobVars, fnVars>>
notPrecip == <<featVars, dbVars, weatherVars, deployVars, prepVars, jobVars, fnVars>>
notWeather == <<featVars, dbVars, precipVars, deployVars, prepVars, jobVars, fnVars>>
notDeploy == <<featVars, dbVars, precipVars, weatherVars, prepVars, jobVars, fnVars>>
notPrep == <<featVars, dbVars, precipVars, weatherVars, deployVars, jobVars, fnVars>>
notFn == <<featVars, dbVars, precipVars, weatherVars, deployVars, prepVars, jobVars>>
notJobs == <<featVars, dbVars, precipVars, weatherVars, deployVars, prepVars, fnVars>>

(***************************************************************************)
(* Nullable numbers: pandas NaN / SQL NULL is <<>>, the number v is <<v>>. *)
(***************************************************************************)
NaN == <<>>
Num(v) == <<v>>
IsNaN(x) == x = <<>>
Val(x) == x[1]

RECURSIVE GCD(_, _)
GCD(a, b) == IF b = 0 THEN a ELSE GCD(b, a % b)

Abs(n) == IF n < 0 THEN -n ELSE n

\* an exact quotient n/d (d > 0) in lowest terms, as the pair <<numerator, denominator>>
Frac(n, d) == LET g == GCD(Abs(n), d) IN <<n \div g, d \div g>>

RECURSIVE SumSet(_, _)
SumSet(S, f) == IF S = {} THEN 0
                ELSE LET x == CHOOSE y \in S : TRUE IN f[x] + SumSet(S \ {x}, f)

MaxOf(S) == CHOOSE m \in S : \A y \in S : y <= m

(***************************************************************************)
(* features.py                                                             *)
(***************************************************************************)
MaxRows == 3

ObsVals == {NaN, Num(0), Num(1)}
FcstVals == {Num(0), Num(1)}

Rows == [obs_precip : ObsVals, obs_temp : ObsVals,
         fcst_temp : FcstVals, fcst_precip : {Num(0)}]

Tables == UNION {[1..n -> Rows] : n \in 1..MaxRows}

LagHours == {1, 2, 3, 6, 12, 24}
RollWindows == {6, 12, 24}

\* Series.shift(lag): row t gets the value of row t - lag, NaN when there is none
Shift(tbl, col, lag, t) == IF t - lag >= 1 THEN tbl[t - lag][col] ELSE NaN

\* the rows of Series.rolling(window) at row t: the trailing window that ends at t
WindowRows(window, t) == {i \in 1..t : i > t - window}

\* rolling(window, min_periods=1).sum(): NaN cells are skipped
RollingSum(s, window, t) ==
    LET valid == {i \in WindowRows(window, t) : ~IsNaN(s[i])}
    IN IF valid = {} THEN NaN ELSE Num(SumSet(valid, [i \in valid |-> Val(s[i])]))

\* rolling(window, min_periods=1).max()
RollingMax(s, window, t) ==
    LET valid == {i \in WindowRows(window, t) : ~IsNaN(s[i])}
    IN IF valid = {} THEN NaN ELSE Num(MaxOf({Val(s[i]) : i \in valid}))

\* rolling(window, min_periods=1).mean()
RollingMean(s, window, t) ==
    LET valid == {i \in WindowRows(window, t) : ~IsNaN(s[i])}
    IN IF valid = {} THEN NaN
       ELSE Frac(SumSet(valid, [i \in valid |-> Val(s[i])]), Cardinality(valid))

\* obs - fcst, NaN when either side is
ErrorSeries(tbl, obsCol, fcstCol) ==
    [i \in DOMAIN tbl |->
        IF IsNaN(tbl[i][obsCol]) \/ IsNaN(tbl[i][fcstCol]) THEN NaN
        ELSE Num(Val(tbl[i][obsCol]) - Val(tbl[i][fcstCol]))]

Column(tbl, col) == [i \in DOMAIN tbl |-> tbl[i][col]]

LagNames == {<<c, l>> : c \in {"obs_precip_lag", "obs_temp_lag"}, l \in LagHours}
RollNames == {<<c, w>> : c \in {"obs_precip_roll_sum", "obs_precip_roll_max"},
                         w \in RollWindows}
BiasNames == {<<"nwp_temp_bias", 24>>, <<"nwp_temp_bias", 72>>, <<"nwp_precip_bias", 24>>}

\* add_lag_features: the columns it adds, at row t
add_lag_features(tbl, t) ==
    [n \in LagNames \cup RollNames |->
        CASE n[1] = "obs_precip_lag" -> Shift(tbl, "obs_precip", n[2], t)
          [] n[1] = "obs_temp_lag" -> Shift(tbl, "obs_temp", n[2], t)
          [] n[1] = "obs_precip_roll_sum" -> RollingSum(Column(tbl, "obs_precip"), n[2], t)
          [] n[1] = "obs_precip_roll_max" -> RollingMax(Column(tbl, "obs_precip"), n[2], t)]

\* add_nwp_bias_features: the columns it adds, at row t
add_nwp_bias_features(tbl, t) ==
    [n \in BiasNames |->
        IF n[1] = "nwp_temp_bias"
        THEN RollingMean(ErrorSeries(tbl, "obs_temp", "fcst_temp"), n[2], t)
        ELSE RollingMean(ErrorSeries(tbl, "obs_precip", "fcst_precip"), n[2], t)]

ObsFeatureNames == LagNames \cup RollNames \cup BiasNames

\* build_feature_set, restricted to the observation-derived columns
build_feature_set(tbl) ==
    [t \in DOMAIN tbl |->
        [n \in ObsFeatureNames |->
            IF n \in BiasNames THEN add_nwp_bias_features(tbl, t)[n]
            ELSE add_lag_features(tbl, t)[n]]]

InitFeat ==
    /\ df \in Tables
    /\ feat = <<>>

BuildFeatureSet ==
    /\ feat = <<>>
    /\ feat' = build_feature_set(df)
    /\ UNCHANGED <<df, notFeat>>

(***************************************************************************)
(* db.py / collector.py                                                    *)
(***************************************************************************)
MaxClock == 3     \* ticks of datetime.now() the model runs for
MaxTime == 2      \* valid times (hours) 1..MaxTime

Times == 1..MaxTime
DataVals == {0, 1}

\* byte values of the characters that occur in fetched_at (SQLite compares TEXT
\* with memcmp under the default BINARY collation) and in the column names
\* (Python compares str by code point)
Ord == [c \in {"+", "-", "0", "1", "2", "3", "4", "5", "6", "7", "8", "9", ":", "T", "_",
               "a", "b", "c", "d", "e", "f", "g", "h", "i", "k", "l", "o", "r", "s", "t",
               "u", "v"} |->
        CASE c = "+" -> 43 [] c = "-" -> 45 [] c = "0" -> 48 [] c = "1" -> 49
          [] c = "2" -> 50 [] c = "3" -> 51 [] c = "4" -> 52 [] c = "5" -> 53
          [] c = "6" -> 54 [] c = "7" -> 55 [] c = "8" -> 56 [] c = "9" -> 57
          [] c = ":" -> 58 [] c = "T" -> 84 [] c = "a" -> 97 [] c = "b" -> 98
          [] c = "c" -> 99 [] c = "e" -> 101 [] c = "f" -> 102 [] c = "h" -> 104
          [] c = "i" -> 105 [] c = "k" -> 107 [] c = "l" -> 108 [] c = "r" -> 114
          [] c = "v" -> 118 [] c = "_" -> 95 [] c = "d" -> 100 [] c = "g" -> 103
          [] c = "o" -> 111 [] c = "s" -> 115 [] c = "t" -> 116 [] c = "u" -> 117]

Digit(n) == CASE n = 0 -> "0" [] n = 1 -> "1" [] n = 2 -> "2" [] n = 3 -> "3"
              [] n = 4 -> "4" [] n = 5 -> "5" [] n = 6 -> "6" [] n = 7 -> "7"
              [] n = 8 -> "8" [] n = 9 -> "9"

\* datetime.now(timezone.utc).isoformat() at tick c: the minute field carries c
IsoFormat(c) ==
    <<"2", "0", "2", "6", "-", "1", "1", "-", "0", "5", "T", "1", "0", ":",
      Digit((c \div 10) % 10), Digit(c % 10), ":", "0", "0", "+", "0", "0", ":", "0", "0">>

Backfill == <<"b", "a", "c", "k", "f", "i", "l", "l">>
BackfillArchive == Backfill \o <<"-", "a", "r", "c", "h", "i", "v", "e">>

\* SQLite's TEXT comparison: a < b bytewise, a proper prefix being smaller
RECURSIVE TextLess(_, _)
TextLess(a, b) ==
    IF b = <<>> THEN FALSE
    ELSE IF a = <<>> THEN TRUE
    ELSE IF Ord[Head(a)] # Ord[Head(b)] THEN Ord[Head(a)] < Ord[Head(b)]
    ELSE TextLess(Tail(a), Tail(b))

\* INSERT OR REPLACE INTO forecasts, PRIMARY KEY (fetched_at, valid_time, source)
InsertOrReplace(tbl, rows) ==
    {r \in tbl : ~\E n \in rows : /\ n.fetched_at = r.fetched_at
                                  /\ n.valid_time = r.valid_time
                                  /\ n.source = r.source} \cup rows

\* db.insert_forecasts(rows, source, fetched_at); rows: time -> [lead_hours, value]
insert_forecasts(tbl, rows, source, fetched_at) ==
    InsertOrReplace(tbl, {[fetched_at |-> fetched_at, valid_time |-> t, source |-> source,
                           lead_hours |-> rows[t].lead_hours,
                           temperature_2m |-> rows[t].temperature_2m] : t \in DOMAIN rows})

\* db.insert_observations(rows): INSERT OR REPLACE, PRIMARY KEY time
insert_observations(tbl, rows) ==
    {r \in tbl : r.time \notin DOMAIN rows} \cup
    {[time |-> t, temperature_2m |-> rows[t]] : t \in DOMAIN rows}

\* the hourly arrays of one API response: hours s..e, one value each
Windows == {<<s, e>> : s \in Times, e \in Times} \ {w \in Times \X Times : w[1] > w[2]}

\* collector.store_forecast: lead_hours is the position in the response
store_forecast(tbl, w, v, now) ==
    insert_forecasts(tbl,
        [t \in w[1]..w[2] |-> [lead_hours |-> Num(t - w[1]), temperature_2m |-> v]],
        "best_match", IsoFormat(now))

\* collector.store_historical_forecast_chunk: lead_hours None, fetched_at "backfill"
store_historical_forecast_chunk(tbl, w, v) ==
    insert_forecasts(tbl,
        [t \in w[1]..w[2] |-> [lead_hours |-> NaN, temperature_2m |-> v]],
        "best_match", Backfill)

\* collector.backfill_forecasts_from_archive: INSERT OR REPLACE ... SELECT FROM observations
backfill_forecasts_from_archive(tbl, obs) ==
    InsertOrReplace(tbl, {[fetched_at |-> BackfillArchive, valid_time |-> o.time,
                           source |-> "best_match", lead_hours |-> NaN,
                           temperature_2m |-> o.temperature_2m] : o \in obs})

\* a faulty variant of RowNumber: ORDER BY fetched_at ASC
RowNumberAsc(tbl, r) ==
    1 + Cardinality({q \in tbl : /\ q.valid_time = r.valid_time
                                 /\ q.source = r.source
                                 /\ TextLess(q.fetched_at, r.fetched_at)})

\* ROW_NUMBER() OVER (PARTITION BY valid_time, source ORDER BY fetched_at DESC)
RowNumber(tbl, r) ==
    1 + Cardinality({q \in tbl : /\ q.valid_time = r.valid_time
                                 /\ q.source = r.source
                                 /\ TextLess(r.fetched_at, q.fetched_at)})

\* the CTE latest_fcst: WHERE source = 'best_match', with rn
LatestFcst(tbl) == {r \in tbl : r.source = "best_match" /\ RowNumber(tbl, r) = 1}

\* SELECT ... FROM observations o INNER JOIN latest_fcst f ON f.valid_time = o.time
\* AND f.rn = 1: the joined rows
Joined(fc, obs) ==
    {[time |-> o.time, obs_temp |-> o.temperature_2m,
      fcst_temp |-> f.temperature_2m, lead_hours |-> f.lead_hours] :
        <<o, f>> \in {p \in obs \X LatestFcst(fc) : p[2].valid_time = p[1].time}}

\* ORDER BY o.time: the rows as a sequence, ascending in time
RECURSIVE OrderByTime(_)
OrderByTime(S) ==
    IF S = {} THEN <<>>
    ELSE LET r == CHOOSE x \in S : \A y \in S : x.time <= y.time
         IN <<r>> \o OrderByTime(S \ {r})

load_paired_data(fc, obs) == OrderByTime(Joined(fc, obs))

NotLoaded == [loaded |-> FALSE, rows |-> <<>>]

InitDb ==
    /\ forecasts = {}
    /\ observations = {}
    /\ clock = 0
    /\ paired = NotLoaded

\* paired is the frame of the latest load for as long as the tables are as that
\* load read them: a write to either table drops it
StoreForecast ==
    /\ clock < MaxClock
    /\ \E w \in Windows, v \in DataVals :
          forecasts' = store_forecast(forecasts, w, v, clock)
    /\ clock' = clock + 1
    /\ paired' = NotLoaded
    /\ UNCHANGED <<observations, notDb>>

StoreHistoricalForecastChunk ==
    /\ clock < MaxClock
    /\ \E w \in Windows, v \in DataVals :
          forecasts' = store_historical_forecast_chunk(forecasts, w, v)
    /\ clock' = clock + 1
    /\ paired' = NotLoaded
    /\ UNCHANGED <<observations, notDb>>

BackfillForecastsFromArchive ==
    /\ clock < MaxClock
    /\ forecasts' = backfill_forecasts_from_archive(forecasts, observations)
    /\ clock' = clock + 1
    /\ paired' = NotLoaded
    /\ UNCHANGED <<observations, notDb>>

StoreHistory ==
    /\ clock < MaxClock
    /\ \E w \in Windows, v \in DataVals :
          observations' = insert_observations(observations, [t \in w[1]..w[2] |-> v])
    /\ clock' = clock + 1
    /\ paired' = NotLoaded
    /\ UNCHANGED <<forecasts, notDb>>

LoadPairedData ==
    /\ paired = NotLoaded
    /\ paired' = [loaded |-> TRUE, rows |-> load_paired_data(forecasts, observations)]
    /\ UNCHANGED <<forecasts, observations, clock, notDb>>

NextDb ==
    \/ StoreForecast
    \/ StoreHistoricalForecastChunk
    \/ BackfillForecastsFromArchive
    \/ StoreHistory
    \/ LoadPairedData

(***************************************************************************)
(* models.py: PrecipitationPredictor                                       *)
(* A probability is a level p in 0..ProbScale standing for p / ProbScale;  *)
(* an amount is an integer in mm; a product probability x amount is kept   *)
(* as the integer p * amount, in units of 1 / ProbScale mm.                *)
(* predict is modelled on one row of X: numpy applies every operation of   *)
(* predict elementwise.                                                    *)
(***************************************************************************)
ProbScale == 1

ProbLevels == 0..ProbScale

\* rain_mask_train.sum() > 100
AmountStageRows == 100

\* the alphas of the quantile ensemble, in percent (int(alpha * 100))
Alphas == {10, 25, 50, 75, 90}

\* the calibrator attribute: None, an IsotonicRegression not yet fitted, or a
\* fitted one; f[r + 1] is the calibrated level of the raw level r
CalNone == [kind |-> "none", f |-> <<>>]
CalUnfitted == [kind |-> "unfitted", f |-> <<>>]

\* IsotonicRegression(y_min=0, y_max=1, out_of_bounds="clip").fit: some
\* non-decreasing map of the raw levels into [0, 1]
IsotonicMaps ==
    {f \in [1..(ProbScale + 1) -> ProbLevels] : \A i \in 1..ProbScale : f[i] <= f[i + 1]}

Calibrators == {[kind |-> "fitted", f |-> f] : f \in IsotonicMaps}

\* PrecipitationPredictor.__init__
PrecipitationPredictor_init ==
    [classifier |-> "unfitted", regressor |-> "unfitted",
     calibrator |-> CalNone, quantile_models |-> {}]

\* the places where PrecipitationPredictor.train can raise
PrecipFailPoints == {"none", "classifier_fit", "predict_proba", "calibrator_fit",
                     "regressor_fit", "quantile_fit", "scores"}

\* PrecipitationPredictor.train on obj: rain is rain_mask_train.sum(), cal the
\* isotonic fit, failAt the call that raises ("none": train returns)
PrecipitationPredictor_train(obj, rain, cal, failAt) ==
    IF failAt = "classifier_fit" THEN obj
    ELSE LET o1 == [obj EXCEPT !.classifier = "fitted"] IN
    IF failAt = "predict_proba" THEN o1
    ELSE IF failAt = "calibrator_fit" THEN [o1 EXCEPT !.calibrator = CalUnfitted]
    ELSE LET o2 == [o1 EXCEPT !.calibrator = cal] IN
    IF ~(rain > AmountStageRows) THEN o2
    ELSE IF failAt = "regressor_fit" THEN o2
    ELSE LET o3 == [o2 EXCEPT !.regressor = "fitted"] IN
    IF failAt = "quantile_fit" THEN [o3 EXCEPT !.quantile_models = @ \cup {10, 25}]
    ELSE [o3 EXCEPT !.quantile_models = @ \cup Alphas]

Max(a, b) == IF a >= b THEN a ELSE b
Min(a, b) == IF a <= b THEN a ELSE b

\* a faulty variant of ServedProbability: the raw classifier probability is served
ServedProbabilityRaw(cal, raw_probs) == raw_probs

\* prob = self.calibrator.predict(raw_probs) if self.calibrator else raw_probs
ServedProbability(cal, raw_probs) ==
    IF cal.kind = "none" THEN raw_probs ELSE cal.f[raw_probs + 1]

\* a faulty variant of ExpectedMm: the naive sum
ExpectedMmSum(prob, amount) == prob + amount

\* "precip_expected_mm": prob * raw_amount
ExpectedMm(prob, amount) == prob * amount

\* a faulty variant of QuantileBand: the raw quantile is not floored
QuantileBandNoFloor(q, prob) == q * prob

\* q = np.maximum(qmodel.predict(X), 0); the band is q * prob
QuantileBand(q, prob) == Max(q, 0) * prob

PrecipRaised ==
    [status |-> "raised", raw_probs |-> 0, raw_amount |-> 0, raw_q |-> <<>>,
     precip_probability |-> 0, precip_expected_mm |-> 0, precip_if_rain_mm |-> 0,
     bands |-> <<>>]

PrecipNoOut == [PrecipRaised EXCEPT !.status = "none"]

\* PrecipitationPredictor.predict on one row: raw_probs, amount and q are what
\* the classifier, the regressor and the quantile models return for the row
PrecipitationPredictor_predict(obj, raw_probs, amount, q) ==
    IF obj.classifier = "unfitted" THEN PrecipRaised
    ELSE IF obj.calibrator.kind = "unfitted" THEN PrecipRaised
    ELSE IF obj.regressor = "unfitted" THEN PrecipRaised
    ELSE LET prob == ServedProbability(obj.calibrator, raw_probs)
             raw_amount == Max(amount, 0)
         IN [status |-> "ok", raw_probs |-> raw_probs, raw_amount |-> amount,
             raw_q |-> [a \in obj.quantile_models |-> q[a]],
             precip_probability |-> prob,
             precip_expected_mm |-> ExpectedMm(prob, raw_amount),
             precip_if_rain_mm |-> raw_amount,
             bands |-> [a \in obj.quantile_models |-> QuantileBand(q[a], prob)]]

\* raw outputs of the amount regressor and of the quantile models for a row
RawAmounts == {-1, 0, 2}
RawQuantiles == {[a \in Alphas |-> -1], [a \in Alphas |-> 3],
                 [a \in Alphas |-> IF a < 50 THEN -2 ELSE IF a = 50 THEN 0 ELSE 4]}

NoBundle(obj) == [exists |-> FALSE, data |-> obj]

\* the object is not as a returned train call on a fresh predictor left it
PrecipNotTrained == [done |-> FALSE, rain |-> 0]

InitPrecip ==
    /\ pp = PrecipitationPredictor_init
    /\ ppBundle = NoBundle(PrecipitationPredictor_init)
    /\ ppOut = PrecipNoOut
    /\ ppTrain = PrecipNotTrained

\* pp = PrecipitationPredictor()
PpNew ==
    /\ pp' = PrecipitationPredictor_init
    /\ ppOut' = PrecipNoOut
    /\ ppTrain' = PrecipNotTrained
    /\ UNCHANGED <<ppBundle, notPrecip>>

\* rain_mask_train.sum() of a train call: below, at and above the threshold
RainRows == {AmountStageRows - 1, AmountStageRows, AmountStageRows + 1}

\* pp.train(...): ppOut is the outcome of predict on the object as it is, a
\* change of the object drops it; ppTrain keeps the rain rows of a call that
\* began on the object as __init__ left it and returned
PpTrain ==
    /\ \E rain \in RainRows, cal \in Calibrators, failAt \in PrecipFailPoints :
          /\ pp' = PrecipitationPredictor_train(pp, rain, cal, failAt)
          /\ ppTrain' = IF pp = PrecipitationPredictor_init /\ failAt = "none"
                        THEN [done |-> TRUE, rain |-> rain]
                        ELSE PrecipNotTrained
    /\ ppOut' = PrecipNoOut
    /\ UNCHANGED <<ppBundle, notPrecip>>

\* PrecipitationPredictor.save: joblib.dump of the four attributes
PpSave ==
    /\ ppBundle' = [exists |-> TRUE, data |-> pp]
    /\ UNCHANGED <<pp, ppOut, ppTrain, notPrecip>>

\* PrecipitationPredictor.load: joblib.load raises when there is no file
PpLoad ==
    /\ ppBundle.exists
    /\ pp' = ppBundle.data
    /\ ppOut' = PrecipNoOut
    /\ ppTrain' = PrecipNotTrained
    /\ UNCHANGED <<ppBundle, notPrecip>>

PpPredict ==
    /\ \E raw_probs \in ProbLevels, amount \in RawAmounts, q \in RawQuantiles :
          ppOut' = PrecipitationPredictor_predict(pp, raw_probs, amount, q)
    /\ UNCHANGED <<pp, ppBundle, ppTrain, notPrecip>>

NextPrecip ==
    \/ PpNew
    \/ PpTrain
    \/ PpSave
    \/ PpLoad
    \/ PpPredict

(***************************************************************************)
(* models.py: WeatherPredictor                                             *)
(***************************************************************************)
\* self.targets, in the order the dict is iterated
TargetOrder == <<"temperature", "humidity", "wind_speed", "wind_direction">>
Targets == {TargetOrder[i] : i \in DOMAIN TargetOrder}

\* if len(common) < 100: skip the target
MinTargetRows == 100

\* the alphas of the interval models, in percent
IntervalAlphas == {10, 90}

\* WeatherPredictor.__init__: models = {}, quantile_models = {}
WeatherPredictor_init == [models |-> {}, quantile_models |-> <<>>]

\* the places where WeatherPredictor.train can raise: the point fit or the
\* first quantile fit of a target
WeatherFailPoints == {<<"none", "none">>} \cup (Targets \X {"fit", "quantile"})

\* d[k] = v on a dict d
SetItem(d, k, v) == [x \in DOMAIN d \cup {k} |-> IF x = k THEN v ELSE d[x]]

\* self.target_to_obs_col
target_to_obs_col ==
    [t \in Targets |-> CASE t = "temperature" -> "obs_temp"
                         [] t = "humidity" -> "obs_humidity"
                         [] t = "wind_speed" -> "obs_wind_speed"
                         [] t = "wind_direction" -> "obs_wind_dir"]

\* a faulty variant of SkipTarget: exactly 100 rows are skipped too
SkipTargetOffByOne(n) == n <= MinTargetRows

\* if len(common) < 100
SkipTarget(n) == n < MinTargetRows

\* the body of the loop of WeatherPredictor.train from target number i on, on
\* st = [obj, printed]: cols is y_train.columns, rows[t] is len(common) for
\* target t, printed the "Skipping {target}: only {n} samples" lines so far
RECURSIVE TrainTargets(_, _, _, _, _)
TrainTargets(st, i, cols, rows, failAt) ==
    IF i > Len(TargetOrder) THEN st
    ELSE LET t == TargetOrder[i] IN
    IF target_to_obs_col[t] \notin cols THEN TrainTargets(st, i + 1, cols, rows, failAt)
    ELSE IF SkipTarget(rows[t])
    THEN TrainTargets([st EXCEPT !.printed = @ \cup {<<t, rows[t]>>}],
                      i + 1, cols, rows, failAt)
    ELSE IF failAt = <<t, "fit">> THEN st
    ELSE LET s1 == [st EXCEPT !.obj.models = @ \cup {t}] IN
    IF failAt = <<t, "quantile">>
    THEN [s1 EXCEPT !.obj.quantile_models = SetItem(@, t, {})]
    ELSE TrainTargets([s1 EXCEPT !.obj.quantile_models = SetItem(@, t, IntervalAlphas)],
                      i + 1, cols, rows, failAt)

\* WeatherPredictor.train: the object and the lines printed when the loop ends
\* or a fit raises
WeatherPredictor_train(obj, cols, rows, failAt) ==
    TrainTargets([obj |-> obj, printed |-> {}], 1, cols, rows, failAt)

\* whether the call of train ran to its return: no fit it reached raised
WeatherTrainReturned(cols, rows, failAt) ==
    \/ failAt = <<"none", "none">>
    \/ target_to_obs_col[failAt[1]] \notin cols
    \/ SkipTarget(rows[failAt[1]])

\* a faulty variant of ClipHumidity: no clipping
ClipHumidityNone(x) == x

\* np.clip(results["humidity"], 0, 100)
ClipHumidity(x) == Min(Max(x, 0), 100)

\* np.maximum(results["wind_speed"], 0)
FloorWindSpeed(x) == Max(x, 0)

WeatherRaised == [status |-> "raised", raw |-> <<>>, point |-> <<>>, q10 |-> <<>>, q90 |-> <<>>]
WeatherNoOut == [WeatherRaised EXCEPT !.status = "none"]

\* WeatherPredictor.predict on one row: raw[t], raw10[t], raw90[t] are what the
\* point model and the two quantile models of target t return for the row
WeatherPredictor_predict(obj, raw, raw10, raw90) ==
    LET withQ == obj.models \cap DOMAIN obj.quantile_models IN
    IF \E t \in withQ : obj.quantile_models[t] # IntervalAlphas THEN WeatherRaised
    ELSE [status |-> "ok",
          raw |-> [t \in obj.models |-> raw[t]],
          point |-> [t \in obj.models |->
                        CASE t = "humidity" -> ClipHumidity(raw[t])
                          [] t = "wind_speed" -> FloorWindSpeed(raw[t])
                          [] OTHER -> raw[t]],
          q10 |-> [t \in withQ |-> raw10[t]],
          q90 |-> [t \in withQ |-> raw90[t]]]

\* raw model outputs for a row, in range and out of range
RawPoints == [temperature : {20}, humidity : {-5, 50, 105},
              wind_speed : {-3, 7}, wind_direction : {180}]
RawQ10 == {[temperature |-> 18, humidity |-> 40, wind_speed |-> 5, wind_direction |-> 170],
           [temperature |-> 18, humidity |-> -9, wind_speed |-> -4, wind_direction |-> 170]}
RawQ90 == {[temperature |-> 22, humidity |-> 60, wind_speed |-> 9, wind_direction |-> 190],
           [temperature |-> 22, humidity |-> 109, wind_speed |-> 9, wind_direction |-> 190]}

\* the obs_ columns of the frame of db.load_paired_data: train.main passes
\* train_df[obs_cols] as y_train
PairedObsColumns == {"obs_temp", "obs_dewpoint", "obs_humidity", "obs_pressure",
                     "obs_wind_speed", "obs_wind_dir", "obs_precip", "obs_cloud"}

\* the object is not as a returned train call on a fresh predictor left it
WeatherNotTrained == [done |-> FALSE, rows |-> <<>>, printed |-> {}]

InitWeather ==
    /\ wp = WeatherPredictor_init
    /\ wpBundle = NoBundle(WeatherPredictor_init)
    /\ wpOut = WeatherNoOut
    /\ wpTrain = WeatherNotTrained

\* wp = WeatherPredictor()
WpNew ==
    /\ wp' = WeatherPredictor_init
    /\ wpOut' = WeatherNoOut
    /\ wpTrain' = WeatherNotTrained
    /\ UNCHANGED <<wpBundle, notWeather>>

\* wp.train(...): wpOut is the outcome of predict on the object as it is, a
\* change of the object drops it; wpTrain keeps the rows and the printed lines
\* of a call that began on the object as __init__ left it and returned
WpTrain ==
    /\ \E rows \in [Targets -> {MinTargetRows - 1, MinTargetRows}],
          failAt \in WeatherFailPoints :
          LET st == WeatherPredictor_train(wp, PairedObsColumns, rows, failAt) IN
          /\ wp' = st.obj
          /\ wpTrain' = IF /\ wp = WeatherPredictor_init
                           /\ WeatherTrainReturned(PairedObsColumns, rows, failAt)
                        THEN [done |-> TRUE, rows |-> rows, printed |-> st.printed]
                        ELSE WeatherNotTrained
    /\ wpOut' = WeatherNoOut
    /\ UNCHANGED <<wpBundle, notWeather>>

\* WeatherPredictor.save: joblib.dump of models and quantile_models
WpSave ==
    /\ wpBundle' = [exists |-> TRUE, data |-> wp]
    /\ UNCHANGED <<wp, wpOut, wpTrain, notWeather>>

\* WeatherPredictor.load: joblib.load raises when there is no file
WpLoad ==
    /\ wpBundle.exists
    /\ wp' = wpBundle.data
    /\ wpOut' = WeatherNoOut
    /\ wpTrain' = WeatherNotTrained
    /\ UNCHANGED <<wpBundle, notWeather>>

WpPredict ==
    /\ \E raw \in RawPoints, raw10 \in RawQ10, raw90 \in RawQ90 :
          wpOut' = WeatherPredictor_predict(wp, raw, raw10, raw90)
    /\ UNCHANGED <<wp, wpBundle, wpTrain, notWeather>>

NextWeather ==
    \/ WpNew
    \/ WpTrain
    \/ WpSave
    \/ WpLoad
    \/ WpPredict

(***************************************************************************)
(* gunicorn.conf.py, wsgi.py, startup.py, train.py, predict.py: the worker *)
(* processes of a deployment, from process start to serving.               *)
(* The database is kept as its two row counts; the paired join has as many *)
(* rows as the shorter table (both backfills cover the same hours).        *)
(* A file on disk is absent, being written ("partial"; "torn" when a       *)
(* second writer opened it meanwhile), or closed ("complete"; "corrupt"    *)
(* when the writes of two processes interleaved).                          *)
(***************************************************************************)
\* workers = 2, preload_app = False: each worker imports wsgi itself
Workers == 2

WorkerIds == 1..Workers

\* if len(df) < 500
MinPairedRows == 500

\* if obs < 100 or fcst < 100
MinStartupRows == 100

\* row counts a backfill can leave behind
DataSizes == {0, MinStartupRows - 1, MinStartupRows, MinPairedRows - 1, MinPairedRows}

FileNames == {"weather_model", "precip_model", "latest_forecast"}

AbsentFile == [content |-> "absent", writers |-> {}]

\* open(path, "w") / joblib.dump(obj, path): the file is truncated, then written
OpenForWrite(f, p) ==
    [content |-> IF f.writers \ {p} # {} THEN "torn" ELSE "partial",
     writers |-> f.writers \cup {p}]

\* the outcomes of closing the file after the last write
CloseAfterWrite(f, p) ==
    IF f.writers \ {p} # {} THEN {[f EXCEPT !.writers = @ \ {p}]}
    ELSE IF f.content = "torn"
         THEN {[content |-> c, writers |-> {}] : c \in {"complete", "corrupt"}}
         ELSE {[content |-> "complete", writers |-> {}]}

\* a faulty variant of InsufficientData: the threshold is off by one
InsufficientDataOffByOne(n) == n < MinPairedRows - 1

\* train.main: if len(df) < 500
InsufficientData(n) == n < MinPairedRows

\* db.load_paired_data, as a row count
PairedRows == Min(obsRows, fcstRows)

\* what joblib.load(path) finds
ReadBundle(f) == IF f.content \in {"partial", "torn"} THEN "partial" ELSE f.content

NothingLoaded == [weather_model |-> "none", precip_model |-> "none", latest_forecast |-> "none"]

InitDeploy ==
    /\ pc = [p \in WorkerIds |-> "boot"]
    /\ obsRows = 0
    /\ fcstRows = 0
    /\ files = [n \in FileNames |-> AbsentFile]
    /\ trainRows = [p \in WorkerIds |-> -1]
    /\ featBuilt = [p \in WorkerIds |-> FALSE]
    /\ wrote = [p \in WorkerIds |-> {}]
    /\ loaded = [p \in WorkerIds |-> NothingLoaded]

Goto(p, label) == pc' = [pc EXCEPT ![p] = label]

\* wsgi.py: if not forecast_file.exists(): startup.run()
WsgiImport(p) ==
    /\ pc[p] = "boot"
    /\ IF files["latest_forecast"].content = "absent"
       THEN Goto(p, "backfill_history")
       ELSE Goto(p, "serving")
    /\ UNCHANGED <<obsRows, fcstRows, files, trainRows, featBuilt, wrote, loaded, notDeploy>>

\* startup.run steps 1-2: db.init_db(), collector.backfill_history()
BackfillHistory(p) ==
    /\ pc[p] = "backfill_history"
    /\ \E n \in DataSizes : n >= obsRows /\ obsRows' = n
    /\ Goto(p, "backfill_forecasts")
    /\ UNCHANGED <<fcstRows, files, trainRows, featBuilt, wrote, loaded, notDeploy>>

\* startup.run step 2: collector.backfill_forecasts(), with the archive fallback
BackfillForecasts(p) ==
    /\ pc[p] = "backfill_forecasts"
    /\ \E n \in DataSizes : n >= fcstRows /\ fcstRows' = n
    /\ Goto(p, "check_data")
    /\ UNCHANGED <<obsRows, files, trainRows, featBuilt, wrote, loaded, notDeploy>>

\* startup.run: if obs < 100 or fcst < 100: generate_raw_forecast(); return
CheckData(p) ==
    /\ pc[p] = "check_data"
    /\ IF obsRows < MinStartupRows \/ fcstRows < MinStartupRows
       THEN Goto(p, "raw_fetch")
       ELSE Goto(p, "train_load")
    /\ UNCHANGED <<obsRows, fcstRows, files, trainRows, featBuilt, wrote, loaded, notDeploy>>

\* generate_raw_forecast: requests.get; a failure is caught by startup.run
RawFetch(p) ==
    /\ pc[p] = "raw_fetch"
    /\ \E ok \in BOOLEAN : Goto(p, IF ok THEN "raw_open" ELSE "serving")
    /\ UNCHANGED <<obsRows, fcstRows, files, trainRows, featBuilt, wrote, loaded, notDeploy>>

\* generate_raw_forecast: with open(outpath, "w") as f
RawOpen(p) ==
    /\ pc[p] = "raw_open"
    /\ files' = [files EXCEPT !["latest_forecast"] = OpenForWrite(@, p)]
    /\ Goto(p, "raw_close")
    /\ UNCHANGED <<obsRows, fcstRows, trainRows, featBuilt, wrote, loaded, notDeploy>>

\* generate_raw_forecast: json.dump(output, f) and the end of the with block
RawClose(p) ==
    /\ pc[p] = "raw_close"
    /\ \E f \in CloseAfterWrite(files["latest_forecast"], p) :
          files' = [files EXCEPT !["latest_forecast"] = f]
    /\ Goto(p, "serving")
    /\ UNCHANGED <<obsRows, fcstRows, trainRows, featBuilt, wrote, loaded, notDeploy>>

\* train.main: df = db.load_paired_data(); if len(df) < 500: sys.exit(1).
\* SystemExit is not an Exception: it leaves startup.run and the import of wsgi
TrainLoad(p) ==
    /\ pc[p] = "train_load"
    /\ trainRows' = [trainRows EXCEPT ![p] = PairedRows]
    /\ featBuilt' = [featBuilt EXCEPT ![p] = FALSE]
    /\ wrote' = [wrote EXCEPT ![p] = {}]
    /\ IF InsufficientData(PairedRows)
       THEN Goto(p, "exited")
       ELSE Goto(p, "train_features")
    /\ UNCHANGED <<obsRows, fcstRows, files, loaded, notDeploy>>

\* train.main: build_feature_set, get_feature_columns, dropna, the split
TrainFeatures(p) ==
    /\ pc[p] = "train_features"
    /\ featBuilt' = [featBuilt EXCEPT ![p] = TRUE]
    /\ Goto(p, "train_wp")
    /\ UNCHANGED <<obsRows, fcstRows, files, trainRows, wrote, loaded, notDeploy>>

\* train.main: wp.train(...); an exception is caught by startup.run, which
\* falls back to generate_raw_forecast
TrainWeather(p) ==
    /\ pc[p] = "train_wp"
    /\ \E ok \in BOOLEAN : Goto(p, IF ok THEN "save_wp_open" ELSE "raw_fetch")
    /\ UNCHANGED <<obsRows, fcstRows, files, trainRows, featBuilt, wrote, loaded, notDeploy>>

\* wp.save(config.MODEL_PATH): joblib.dump opens the path itself for writing
SaveWeatherOpen(p) ==
    /\ pc[p] = "save_wp_open"
    /\ files' = [files EXCEPT !["weather_model"] = OpenForWrite(@, p)]
    /\ wrote' = [wrote EXCEPT ![p] = @ \cup {"weather_model"}]
    /\ Goto(p, "save_wp_close")
    /\ UNCHANGED <<obsRows, fcstRows, trainRows, featBuilt, loaded, notDeploy>>

SaveWeatherClose(p) ==
    /\ pc[p] = "save_wp_close"
    /\ \E f \in CloseAfterWrite(files["weather_model"], p) :
          files' = [files EXCEPT !["weather_model"] = f]
    /\ Goto(p, "train_pp")
    /\ UNCHANGED <<obsRows, fcstRows, trainRows, featBuilt, wrote, loaded, notDeploy>>

\* train.main: pp.train(...)
TrainPrecipitation(p) ==
    /\ pc[p] = "train_pp"
    /\ \E ok \in BOOLEAN : Goto(p, IF ok THEN "save_pp_open" ELSE "raw_fetch")
    /\ UNCHANGED <<obsRows, fcstRows, files, trainRows, featBuilt, wrote, loaded, notDeploy>>

\* pp.save(config.PRECIP_MODEL_PATH)
SavePrecipitationOpen(p) ==
    /\ pc[p] = "save_pp_open"
    /\ files' = [files EXCEPT !["precip_model"] = OpenForWrite(@, p)]
    /\ wrote' = [wrote EXCEPT ![p] = @ \cup {"precip_model"}]
    /\ Goto(p, "save_pp_close")
    /\ UNCHANGED <<obsRows, fcstRows, trainRows, featBuilt, loaded, notDeploy>>

SavePrecipitationClose(p) ==
    /\ pc[p] = "save_pp_close"
    /\ \E f \in CloseAfterWrite(files["precip_model"], p) :
          files' = [files EXCEPT !["precip_model"] = f]
    /\ Goto(p, "train_summary")
    /\ UNCHANGED <<obsRows, fcstRows, trainRows, featBuilt, wrote, loaded, notDeploy>>

\* train.main: wp_loaded.load(config.MODEL_PATH) and the lead-time summary
TrainSummary(p) ==
    /\ pc[p] = "train_summary"
    /\ IF ReadBundle(files["weather_model"]) = "complete"
       THEN Goto(p, "predict_load_wp")
       ELSE Goto(p, "raw_fetch")
    /\ UNCHANGED <<obsRows, fcstRows, files, trainRows, featBuilt, wrote, loaded, notDeploy>>

\* predict.main: wp.load(config.MODEL_PATH); an exception of predict.main is
\* caught by startup.run, which then returns
PredictLoadWeather(p) ==
    /\ pc[p] = "predict_load_wp"
    /\ loaded' = [loaded EXCEPT ![p] =
                     [NothingLoaded EXCEPT !.weather_model = ReadBundle(files["weather_model"])]]
    /\ IF ReadBundle(files["weather_model"]) = "complete"
       THEN Goto(p, "predict_load_pp")
       ELSE Goto(p, "serving")
    /\ UNCHANGED <<obsRows, fcstRows, files, trainRows, featBuilt, wrote, notDeploy>>

\* predict.main: pp.load(config.PRECIP_MODEL_PATH)
PredictLoadPrecipitation(p) ==
    /\ pc[p] = "predict_load_pp"
    /\ loaded' = [loaded EXCEPT ![p].precip_model = ReadBundle(files["precip_model"])]
    /\ IF ReadBundle(files["precip_model"]) = "complete"
       THEN Goto(p, "predict_fetch")
       ELSE Goto(p, "serving")
    /\ UNCHANGED <<obsRows, fcstRows, files, trainRows, featBuilt, wrote, notDeploy>>

\* predict.main: fetch_current_forecast, features, wp.predict, pp.predict
PredictFetch(p) ==
    /\ pc[p] = "predict_fetch"
    /\ \E ok \in BOOLEAN : Goto(p, IF ok THEN "predict_open" ELSE "serving")
    /\ UNCHANGED <<obsRows, fcstRows, files, trainRows, featBuilt, wrote, loaded, notDeploy>>

\* predict.main: with open(outpath, "w") as f
PredictOpen(p) ==
    /\ pc[p] = "predict_open"
    /\ files' = [files EXCEPT !["latest_forecast"] = OpenForWrite(@, p)]
    /\ Goto(p, "predict_close")
    /\ UNCHANGED <<obsRows, fcstRows, trainRows, featBuilt, wrote, loaded, notDeploy>>

\* predict.main: json.dump(output, f, indent=2) and the end of the with block
PredictClose(p) ==
    /\ pc[p] = "predict_close"
    /\ \E f \in CloseAfterWrite(files["latest_forecast"], p) :
          files' = [files EXCEPT !["latest_forecast"] = f]
    /\ Goto(p, "serving")
    /\ UNCHANGED <<obsRows, fcstRows, trainRows, featBuilt, wrote, loaded, notDeploy>>

\* serve.load_forecast in a worker that serves: None when the file does not
\* exist, else json.load of what the file holds at that moment
LoadForecast(p) ==
    /\ pc[p] = "serving"
    /\ loaded' = [loaded EXCEPT ![p].latest_forecast = ReadBundle(files["latest_forecast"])]
    /\ UNCHANGED <<pc, obsRows, fcstRows, files, trainRows, featBuilt, wrote, notDeploy>>

NextDeploy ==
    \E p \in WorkerIds :
        \/ WsgiImport(p)
        \/ BackfillHistory(p)
        \/ BackfillForecasts(p)
        \/ CheckData(p)
        \/ RawFetch(p)
        \/ RawOpen(p)
        \/ RawClose(p)
        \/ TrainLoad(p)
        \/ TrainFeatures(p)
        \/ TrainWeather(p)
        \/ SaveWeatherOpen(p)
        \/ SaveWeatherClose(p)
        \/ TrainPrecipitation(p)
        \/ SavePrecipitationOpen(p)
        \/ SavePrecipitationClose(p)
        \/ TrainSummary(p)
        \/ PredictLoadWeather(p)
        \/ PredictLoadPrecipitation(p)
        \/ PredictFetch(p)
        \/ PredictOpen(p)
        \/ PredictClose(p)
        \/ LoadForecast(p)

(***************************************************************************)
(* train.py: main, from the engineered table to the train/validation       *)
(* slices. A row is its time index and the number of its feature columns   *)
(* that are NaN; n is len(feature_cols).                                   *)
(***************************************************************************)
MaxPrepRows == 4       \* rows of the engineered table
MaxFeatureCols == 3    \* feature columns

\* the tables db.load_paired_data and build_feature_set hand to the filter:
\* ORDER BY o.time, one row per time, any number of NaN feature columns
PrepTables(n) ==
    {OrderByTime({[time |-> t, missing |-> m[t]] : t \in S}) :
        S \in SUBSET (1..MaxPrepRows), m \in [1..MaxPrepRows -> 0..n]}

\* df.dropna(subset=feature_cols, thresh=len(feature_cols) // 2): a row stays
\* when at least thresh of its n feature columns are not NaN
dropna(tbl, n) == SelectSeq(tbl, LAMBDA r : n - r.missing >= n \div 2)

\* a faulty variant of SplitIdx: the index is rounded to the nearest integer
SplitIdxRounded(len) == (len * 8 + 5) \div 10

\* split_idx = int(len(df) * 0.8): the product of a row count by the double
\* 0.8 (= 0.8 + 2^-52 / 5) truncates to floor(8 * len / 10)
SplitIdx(len) == (len * 8) \div 10

\* df.iloc[:k] and df.iloc[k:]
ILocHead(tbl, k) == SubSeq(tbl, 1, k)
ILocTail(tbl, k) == SubSeq(tbl, k + 1, Len(tbl))

PrepIdle == [stage |-> "idle", n |-> 0, built |-> <<>>, df |-> <<>>,
             train_df |-> <<>>, val_df |-> <<>>]

InitPrep ==
    \E n \in 1..MaxFeatureCols : \E tbl \in PrepTables(n) :
        prep = [PrepIdle EXCEPT !.stage = "built", !.n = n, !.built = tbl]

\* train.main: df = df.dropna(subset=feature_cols, thresh=len(feature_cols) // 2)
DropSparseRows ==
    /\ prep.stage = "built"
    /\ prep' = [prep EXCEPT !.stage = "dropped", !.df = dropna(prep.built, prep.n)]
    /\ UNCHANGED notPrep

\* train.main: split_idx, train_df = df.iloc[:split_idx], val_df = df.iloc[split_idx:]
SplitTrainVal ==
    /\ prep.stage = "dropped"
    /\ prep' = [prep EXCEPT !.stage = "split",
                            !.train_df = ILocHead(prep.df, SplitIdx(Len(prep.df))),
                            !.val_df = ILocTail(prep.df, SplitIdx(Len(prep.df)))]
    /\ UNCHANGED notPrep

NextPrep ==
    \/ DropSparseRows
    \/ SplitTrainVal

(***************************************************************************)
(* train.py, predict.py, collector.py and startup.py as programs run one   *)
(* at a time (by cron, by hand, or as the steps of startup.run), each to   *)
(* its end, over the files of BASE_DIR: the two bundles and                *)
(* latest_forecast.json. The database is outside this part: the sizes of   *)
(* the frames read from it are inputs, the stores into it are steps.       *)
(* A bundle file holds the predictor object and feature_name_, the column  *)
(* list that every model of the bundle was fitted on.                      *)
(***************************************************************************)
MaxChunks == 1     \* chunks of one _chunked_fetch
MaxHours == 2      \* hourly rows of one forecast response

\* features.get_feature_columns: the columns that are features (obs_temp, a
\* target, is not; the obs lag column is) in the order of Python's sorted()
get_feature_columns(columns) ==
    LET sorted == <<"cloud_tend_12h", "cloud_tend_24h", "cloud_tend_3h", "cloud_tend_6h",
                    "dewpoint_tend_3h", "dewpoint_tend_6h", "fcst_cape", "fcst_temp",
                    "fcst_visibility", "hour_sin", "lead_hours", "obs_temp",
                    "obs_temp_lag_1h">>
    IN SelectSeq(sorted, LAMBDA c : c \in columns /\ c # "obs_temp")

\* datetime.isoformat() of hour h counted from 2026-11-05T00:00:00
isoformat(h) ==
    <<"2", "0", "2", "6", "-", "1", "1", "-", "0", Digit(5 + h \div 24), "T",
      Digit((h % 24) \div 10), Digit((h % 24) % 10), ":", "0", "0", ":", "0", "0">>

\* what requests.get(...) gives fetch_current_forecast / generate_raw_forecast:
\* a failure, or the hourly keys present (fcst_cape and fcst_visibility may be
\* left out) and the hourly times, consecutive hours from 23:00 on
Responses ==
    [ok : BOOLEAN,
     columns : {{"fcst_temp"} \cup S : S \in SUBSET {"fcst_cape", "fcst_visibility"}},
     time : {[i \in 1..n |-> 22 + i] : n \in 1..MaxHours}]

BundleFile(obj, features) == [exists |-> TRUE, data |-> obj, feature_name_ |-> features]

\* BASE_DIR before anything was written
NoFiles ==
    [weather_model |-> [exists |-> FALSE, data |-> WeatherPredictor_init,
                        feature_name_ |-> <<>>],
     precip_model |-> [exists |-> FALSE, data |-> PrecipitationPredictor_init,
                       feature_name_ |-> <<>>],
     latest_forecast |-> [exists |-> FALSE, note |-> FALSE, hourly |-> <<>>],
     same_run |-> FALSE]

\* the isotonic fit of the training runs of this part
IdentityCal == [kind |-> "fitted", f |-> [i \in 1..(ProbScale + 1) |-> i - 1]]

\* the first k steps of a program as <<step, went through>>: the last one
\* raised unless ok
Ran(names, k, ok) == [i \in 1..k |-> <<names[i], ok \/ i < k>>]

JobNone == [prog |-> "none", status |-> "none", backfill |-> FALSE, steps |-> <<>>,
            columns |-> {}, fetched |-> <<>>, X |-> <<>>, filled |-> {},
            report |-> [count |-> 0, names |-> <<>>], pending |-> <<>>, caller |-> "none"]

\* train.main on the files d: n is len(df), rows[t] the labelled rows of
\* target t, rain the rain rows, wFailAt / pFailAt where the two train calls
\* raise, leads whether a lead-time bucket of the summary has 10 rows.
\* same_run tells whether the two bundle files are of one run: not from
\* wp.save on, again from pp.save of that run on.
train_main(d, n, rows, rain, wFailAt, pFailAt, leads) ==
    LET feature_cols == get_feature_columns({"fcst_cape", "fcst_temp", "fcst_visibility",
                                             "hour_sin", "lead_hours", "obs_temp",
                                             "obs_temp_lag_1h"})
        w == WeatherPredictor_train(WeatherPredictor_init, PairedObsColumns, rows, wFailAt)
        d1 == [d EXCEPT !.weather_model = BundleFile(w.obj, feature_cols),
                        !.same_run = FALSE]
        p == PrecipitationPredictor_train(PrecipitationPredictor_init, rain, IdentityCal,
                                          pFailAt)
        d2 == [d1 EXCEPT !.precip_model = BundleFile(p, feature_cols),
                         !.same_run = TRUE]
    IN IF InsufficientData(n) THEN [disk |-> d, status |-> "exit"]
       ELSE IF ~WeatherTrainReturned(PairedObsColumns, rows, wFailAt)
       THEN [disk |-> d, status |-> "raised"]
       ELSE IF pFailAt # "none" THEN [disk |-> d1, status |-> "raised"]
       ELSE IF leads /\ "temperature" \notin w.obj.models
       THEN [disk |-> d2, status |-> "raised"]
       ELSE [disk |-> d2, status |-> "ok"]

\* a faulty variant of CanLoad: a missing file loads as an empty bundle
CanLoadAlways(f) == TRUE

\* joblib.load(path) raises when there is no file
CanLoad(f) == f.exists

\* a faulty variant of Missing: no column is found missing
MissingNone(trained_features, columns) == <<>>

\* missing = [c for c in trained_features if c not in df.columns]
Missing(trained_features, columns) ==
    SelectSeq(trained_features, LAMBDA c : c \notin columns)

\* a faulty variant of forecast_rows: the rows are appended in reverse
forecast_rows_reversed(index) ==
    [i \in DOMAIN index |-> isoformat(index[Len(index) + 1 - i])]

\* for i, t in enumerate(df.index): row["time"] = t.isoformat()
forecast_rows(index) == [i \in DOMAIN index |-> isoformat(index[i])]

PredictSteps == <<"wp.load", "pp.load", "fetch_current_forecast", "build_feature_set",
                  "trained_features", "wp.predict", "pp.predict", "forecast_rows", "write">>

\* predict.main on the files d with the response resp: the files and the
\* record of the run afterwards
predict_main(d, resp) ==
    LET wpo == d.weather_model.data
        ppo == d.precip_model.data
        columns == resp.columns \cup {"lead_hours", "obs_temp", "hour_sin", "obs_temp_lag_1h"}
        trained_features == d.weather_model.feature_name_
        missing == Missing(trained_features, columns)
        weather == WeatherPredictor_predict(wpo, [t \in Targets |-> 50],
                                            [t \in Targets |-> 40], [t \in Targets |-> 60])
        precip == PrecipitationPredictor_predict(ppo, 0, 0, [a \in Alphas |-> 0])
        Stop(k) == [JobNone EXCEPT !.prog = "predict", !.status = "raised",
                                   !.steps = Ran(PredictSteps, k, FALSE)]
        Aligned(j) == [j EXCEPT !.columns = columns, !.fetched = resp.time,
                                !.X = trained_features,
                                !.filled = {missing[i] : i \in DOMAIN missing},
                                !.report = [count |-> Len(missing),
                                            names |-> SubSeq(missing, 1, Min(5, Len(missing)))]]
    IN IF ~CanLoad(d.weather_model) THEN [disk |-> d, job |-> Stop(1)]
       ELSE IF ~CanLoad(d.precip_model) THEN [disk |-> d, job |-> Stop(2)]
       ELSE IF ~resp.ok THEN [disk |-> d, job |-> Stop(3)]
       ELSE IF "temperature" \notin wpo.models THEN [disk |-> d, job |-> Stop(5)]
       ELSE IF weather.status = "raised" THEN [disk |-> d, job |-> Aligned(Stop(6))]
       ELSE IF \/ precip.status = "raised"
               \/ Len(trained_features) # Len(d.precip_model.feature_name_)
       THEN [disk |-> d, job |-> Aligned(Stop(7))]
       ELSE IF ~({"temperature", "humidity", "wind_speed"} \subseteq DOMAIN weather.point)
       THEN [disk |-> d, job |-> Aligned(Stop(8))]
       ELSE [disk |-> [d EXCEPT !.latest_forecast =
                          [exists |-> TRUE, note |-> FALSE,
                           hourly |-> forecast_rows(resp.time)]],
             job |-> Aligned([JobNone EXCEPT !.prog = "predict", !.status = "ok",
                                             !.steps = Ran(PredictSteps, 9, TRUE)])]

\* startup.generate_raw_forecast: the response's times as they came, and the
\* note "Raw NWP forecast - ML models not yet trained"
generate_raw_forecast(d, resp) ==
    IF ~resp.ok THEN [disk |-> d, status |-> "raised"]
    ELSE [disk |-> [d EXCEPT !.latest_forecast =
                       [exists |-> TRUE, note |-> TRUE,
                        hourly |-> [i \in DOMAIN resp.time |->
                                       SubSeq(isoformat(resp.time[i]), 1, 16)]]],
          status |-> "ok"]

\* collector._chunked_fetch from chunk i on: a chunk whose fetch (or store)
\* raises is skipped, the loop goes on
RECURSIVE ChunkedFetch(_, _, _, _)
ChunkedFetch(i, ok, fetch_fn, store_fn) ==
    IF i > Len(ok) THEN <<>>
    ELSE (IF ok[i] THEN <<<<fetch_fn, TRUE>>, <<store_fn, TRUE>>>> ELSE <<<<fetch_fn, FALSE>>>>)
         \o ChunkedFetch(i + 1, ok, fetch_fn, store_fn)

\* a faulty variant of NormalRun: the observations are updated although
\* fetch_forecast raised
NormalRunGoesOn(ok) ==
    <<<<"fetch_forecast", ok[1]>>>> \o
    (IF ok[2] THEN <<<<"fetch_history", TRUE>>, <<"store_history", TRUE>>>>
     ELSE <<<<"fetch_history", FALSE>>>>)

\* collector.main without --backfill: fetch_forecast, store_forecast,
\* update_recent_observations; ok[1], ok[2] whether the two fetches succeed
NormalRun(ok) ==
    IF ~ok[1] THEN <<<<"fetch_forecast", FALSE>>>>
    ELSE <<<<"fetch_forecast", TRUE>>, <<"store_forecast", TRUE>>>> \o
         (IF ok[2] THEN <<<<"fetch_history", TRUE>>, <<"store_history", TRUE>>>>
          ELSE <<<<"fetch_history", FALSE>>>>)

\* collector.main: the record of the run; ok[i] whether the i-th fetch succeeds
collector_main(backfill, ok) ==
    LET steps == IF backfill
                 THEN ChunkedFetch(1, SubSeq(ok, 1, MaxChunks),
                                   "fetch_history", "store_history")
                      \o ChunkedFetch(1, SubSeq(ok, MaxChunks + 1, 2 * MaxChunks),
                                      "fetch_historical_forecast",
                                      "store_historical_forecast_chunk")
                      \o <<<<"count_rows", TRUE>>>>
                 ELSE NormalRun(ok)
    IN [JobNone EXCEPT !.prog = "collector", !.backfill = backfill, !.steps = steps,
                       !.status = IF steps[Len(steps)][2] THEN "ok" ELSE "raised"]

\* BASE_DIR with no bundle yet, or with bundles earlier runs of train.main
\* left there, fitted on the feature columns engineered then: both of one
\* run, or the weather bundle of a later run that did not come to pp.save
InitJobs ==
    LET lists == {get_feature_columns({"cloud_tend_12h", "cloud_tend_24h", "cloud_tend_3h",
                                       "cloud_tend_6h", "dewpoint_tend_3h",
                                       "dewpoint_tend_6h", "fcst_temp"}),
                  get_feature_columns({"fcst_temp", "hour_sin", "lead_hours"})}
        w == WeatherPredictor_train(WeatherPredictor_init, PairedObsColumns,
                                    [t \in Targets |-> MinTargetRows], <<"none", "none">>).obj
        p == PrecipitationPredictor_train(PrecipitationPredictor_init, AmountStageRows + 1,
                                          IdentityCal, "none")
    IN /\ disk \in [weather_model : {NoFiles.weather_model}
                                       \cup {BundleFile(w, l) : l \in lists},
                    precip_model : {NoFiles.precip_model}
                                      \cup {BundleFile(p, l) : l \in lists},
                    latest_forecast : {NoFiles.latest_forecast},
                    same_run : BOOLEAN]
       /\ disk.same_run => /\ disk.weather_model.exists
                           /\ disk.precip_model.exists
                           /\ disk.weather_model.feature_name_ = disk.precip_model.feature_name_
       /\ job = JobNone

\* program p is started by itself, or is the next call of startup.run
MayRun(p) == IF job.pending = <<>> THEN TRUE ELSE Head(job.pending) = p

\* python train.py, or train.main() of startup.run: on an exception
\* startup.run falls back to the raw forecast, on sys.exit(1) the process ends.
\* The data and the failures of a run: too few paired rows; or enough, and
\* then a fit of the weather models raises, or it returns with any of the
\* targets skipped and a fit of the precipitation models raises, or that
\* returns too and the summary has a lead-time bucket of 10 rows or none
\* (what a run never reads is fixed).
TrainMain ==
    /\ MayRun("train")
    /\ LET AllRows == [t \in Targets |-> MinTargetRows]
           SomeRows == [Targets -> {MinTargetRows - 1, MinTargetRows}]
           NoFail == <<"none", "none">>
           runs ==
               [n : {MinPairedRows - 1}, rows : {AllRows}, rain : {AmountStageRows},
                wFailAt : {NoFail}, pFailAt : {"none"}, leads : {FALSE}]
               \cup [n : {MinPairedRows}, rows : {AllRows}, rain : {AmountStageRows},
                     wFailAt : {<<"humidity", "fit">>}, pFailAt : {"none"}, leads : {FALSE}]
               \cup [n : {MinPairedRows}, rows : SomeRows, rain : {AmountStageRows},
                     wFailAt : {NoFail}, pFailAt : {"classifier_fit"}, leads : {FALSE}]
               \cup {in \in [n : {MinPairedRows}, rows : SomeRows,
                              rain : {AmountStageRows + 1}, wFailAt : {NoFail},
                              pFailAt : {"none"}, leads : BOOLEAN] :
                        in.leads => SkipTarget(in.rows["temperature"])}
       IN \E in \in runs :
             LET r == train_main(disk, in.n, in.rows, in.rain, in.wFailAt, in.pFailAt,
                                 in.leads) IN
             /\ disk' = r.disk
             /\ job' = [JobNone EXCEPT
                           !.prog = "train", !.status = r.status,
                           !.pending = IF job.pending = <<>> \/ r.status = "exit" THEN <<>>
                                       ELSE IF r.status = "ok" THEN Tail(job.pending)
                                       ELSE <<"raw">>]
    /\ UNCHANGED notJobs

\* python predict.py, or predict.main() of startup.run and of the refresh
PredictMain ==
    /\ MayRun("predict")
    /\ \E resp \in Responses :
          LET r == predict_main(disk, resp) IN
          /\ disk' = r.disk
          /\ job' = r.job
    /\ UNCHANGED notJobs

\* python collector.py [--backfill]
CollectorMain ==
    /\ job.pending = <<>>
    /\ \E backfill \in BOOLEAN :
          \E ok \in [1..(IF backfill THEN 2 * MaxChunks ELSE 2) -> BOOLEAN] :
             job' = collector_main(backfill, ok)
    /\ UNCHANGED <<disk, notJobs>>

\* startup.run up to its branch: backfill_history and backfill_forecasts,
\* each in a try (ok[i] whether the i-th chunk fetch succeeds), the archive
\* fallback in the except branch of the second, the two counts, then the raw
\* forecast (obs < 100 or fcst < 100) or train.main and predict.main.
\* _chunked_fetch catches every exception of a chunk, so neither backfill
\* raises on a failed fetch.
StartupRun ==
    /\ job.pending = <<>>
    /\ \E ok \in [1..(2 * MaxChunks) -> BOOLEAN],
          obs \in {MinStartupRows - 1, MinStartupRows},
          fcst \in {MinStartupRows - 1, MinStartupRows} :
          LET history == ChunkedFetch(1, SubSeq(ok, 1, MaxChunks),
                                      "fetch_history", "store_history")
              nwp == ChunkedFetch(1, SubSeq(ok, MaxChunks + 1, 2 * MaxChunks),
                                  "fetch_historical_forecast",
                                  "store_historical_forecast_chunk")
              raised == FALSE
              fallback == IF raised THEN <<<<"backfill_forecasts_from_archive", TRUE>>>>
                          ELSE <<>>
          IN job' = [JobNone EXCEPT
                        !.prog = "startup", !.status = "ok",
                        !.steps = history \o nwp \o fallback \o <<<<"count_rows", TRUE>>>>,
                        !.pending = IF obs < MinStartupRows \/ fcst < MinStartupRows
                                    THEN <<"raw">>
                                    ELSE <<"train", "predict">>]
    /\ UNCHANGED <<disk, notJobs>>

\* generate_raw_forecast() of startup.run, which returns after it
GenerateRawForecast ==
    /\ job.pending # <<>>
    /\ Head(job.pending) = "raw"
    /\ \E resp \in Responses :
          LET r == generate_raw_forecast(disk, resp) IN
          /\ disk' = r.disk
          /\ job' = [JobNone EXCEPT !.prog = "raw", !.status = r.status]
    /\ UNCHANGED notJobs

\* a faulty variant of refresh_loop: predict.main is called whatever
\* collector.main did
refresh_loop_unguarded(prog, status) ==
    IF prog = "collector" THEN <<"refresh_predict">> ELSE <<>>

\* background._refresh_loop, what is left of a cycle after prog ended with
\* status: predict.main after a collector.main that returned, else nothing
\* (the exception is caught and printed, the thread sleeps 6 hours and
\* begins the next cycle)
refresh_loop(prog, status) ==
    IF prog = "collector" /\ status = "ok" THEN <<"refresh_predict">> ELSE <<>>

\* a cycle of the refresh thread begins: collector.main() (sys.argv of the
\* server has no --backfill)
RefreshCollector ==
    /\ job.pending = <<>>
    /\ \E ok \in [1..2 -> BOOLEAN] :
          LET j == collector_main(FALSE, ok) IN
          job' = [j EXCEPT !.caller = "refresh",
                           !.pending = refresh_loop("collector", j.status)]
    /\ UNCHANGED <<disk, notJobs>>

\* predict.main() of the cycle
RefreshPredict ==
    /\ job.pending # <<>>
    /\ Head(job.pending) = "refresh_predict"
    /\ \E resp \in Responses :
          LET r == predict_main(disk, resp) IN
          /\ disk' = r.disk
          /\ job' = [r.job EXCEPT !.caller = "refresh",
                                  !.pending = refresh_loop("predict", r.job.status)]
    /\ UNCHANGED notJobs

NextJobs ==
    \/ TrainMain
    \/ PredictMain
    \/ CollectorMain
    \/ StartupRun
    \/ GenerateRawForecast
    \/ RefreshCollector
    \/ RefreshPredict

(***************************************************************************)
(* features.get_feature_columns and collector._chunked_fetch as functions  *)
(* of their arguments. A column name is the sequence of its characters, a  *)
(* table the dtype of each of its columns; a date is a day number.         *)
(***************************************************************************)
MaxSpan == 62      \* days from start to end of a _chunked_fetch

\* def _chunked_fetch(..., chunk_days=30)
ChunkDays == 30

\* column names of an engineered table: a raw observation, a lag and a
\* rolling feature derived from observations, a bias feature, the lead time,
\* a forecast variable and the source tag
ColumnNames ==
    [obs_temp |-> <<"o", "b", "s", "_", "t">>,
     obs_temp_lag_1h |-> <<"o", "b", "s", "_", "t", "_", "l", "a", "g", "_", "1", "h">>,
     obs_roll_3h |-> <<"o", "b", "s", "_", "r", "o", "l", "l", "_", "3", "h">>,
     bias_temp |-> <<"b", "i", "a", "s", "_", "t">>,
     lead_hours |-> <<"l", "e", "a", "d", "_", "h", "o", "u", "r", "s">>,
     fcst_temp |-> <<"f", "c", "s", "t", "_", "t">>,
     source |-> <<"s", "r", "c">>]

\* a faulty variant of StartsWith: no column is taken for an observation
StartsWithNever(col, p) == FALSE

\* col.startswith(p)
StartsWith(col, p) == Len(col) >= Len(p) /\ SubSeq(col, 1, Len(p)) = p

\* features.get_feature_columns on a table given as the dtype of each column
GetFeatureColumns(columns) ==
    LET In(p, col) == \E i \in 1..(Len(col) - Len(p) + 1) : SubSeq(col, i, i + Len(p) - 1) = p
        lag == <<"l", "a", "g", "_">>
        roll == <<"r", "o", "l", "l", "_">>
        bias == <<"b", "i", "a", "s", "_">>
        obs == <<"o", "b", "s", "_">>
        include_even_if_obs ==
            {c \in DOMAIN columns : In(lag, c) \/ In(roll, c) \/ In(bias, c)}
        Appended(col) ==
            IF col \in include_even_if_obs THEN TRUE
            ELSE IF StartsWith(col, obs) THEN FALSE
            ELSE IF col = ColumnNames.lead_hours THEN FALSE
            ELSE columns[col] \in {"float64", "int64"}
        feature_cols ==
            {c \in DOMAIN columns : Appended(c)}
               \cup (DOMAIN columns \cap {ColumnNames.lead_hours})
        RECURSIVE sorted(_)
        sorted(S) ==
            IF S = {} THEN <<>>
            ELSE LET least == CHOOSE x \in S : \A y \in S \ {x} : TextLess(x, y)
                 IN <<least>> \o sorted(S \ {least})
    IN sorted(feature_cols)

\* the inclusive date ranges collector._chunked_fetch requests from
\* chunk_start on: while chunk_start < end, [chunk_start, min(chunk_start +
\* chunk_days, end)], then chunk_start = chunk_end + 1 day
RECURSIVE ChunkRanges(_, _, _)
ChunkRanges(chunk_start, end, chunk_days) ==
    IF chunk_start < end
    THEN LET chunk_end == Min(chunk_start + chunk_days, end)
         IN <<<<chunk_start, chunk_end>>>> \o ChunkRanges(chunk_end + 1, end, chunk_days)
    ELSE <<>>

FnIdle == [op |-> "none", columns |-> <<>>, start |-> 0, end |-> 0, done |-> FALSE,
           feature_cols |-> <<>>, requested |-> <<>>]

\* a call of get_feature_columns on a table with any of the columns, each
\* numeric or not; or a call of _chunked_fetch with start < end
InitFn ==
    LET names == {ColumnNames[k] : k \in DOMAIN ColumnNames}
        tables == UNION {[present -> {"float64", "object"}] : present \in SUBSET names}
    IN \/ fn \in {[FnIdle EXCEPT !.op = "get_feature_columns", !.columns = t] : t \in tables}
       \/ \E start \in 0..1 : \E span \in 1..MaxSpan :
             fn = [FnIdle EXCEPT !.op = "_chunked_fetch", !.start = start,
                                 !.end = start + span]

\* feature_cols = get_feature_columns(df)
GetFeatureColumnsCall ==
    /\ fn.op = "get_feature_columns"
    /\ ~fn.done
    /\ fn' = [fn EXCEPT !.done = TRUE, !.feature_cols = GetFeatureColumns(fn.columns)]
    /\ UNCHANGED notFn

\* _chunked_fetch(start, end, fetch_fn, store_fn, label)
ChunkedFetchCall ==
    /\ fn.op = "_chunked_fetch"
    /\ ~fn.done
    /\ fn' = [fn EXCEPT !.done = TRUE,
                        !.requested = ChunkRanges(fn.start, fn.end, ChunkDays)]
    /\ UNCHANGED notFn

NextFn ==
    \/ GetFeatureColumnsCall
    \/ ChunkedFetchCall

(***************************************************************************)
(* Specifications                                                          *)
(***************************************************************************)
InitPrepIdle == prep = PrepIdle

InitFnIdle == fn = FnIdle

InitJobsIdle == disk = NoFiles /\ job = JobNone

InitFeatIdle ==
    /\ df = <<>>
    /\ feat = <<>>

NextFeat == BuildFeatureSet

InitSpecFeat == InitFeat /\ InitDb /\ InitPrecip /\ InitWeather /\ InitDeploy /\ InitPrepIdle
                  /\ InitJobsIdle /\ InitFnIdle

SpecFeat == InitSpecFeat /\ [][NextFeat]_vars

InitSpecDb == InitFeatIdle /\ InitDb /\ InitPrecip /\ InitWeather /\ InitDeploy /\ InitPrepIdle
                  /\ InitJobsIdle /\ InitFnIdle

SpecDb == InitSpecDb /\ [][NextDb]_vars

InitSpecPrecip == InitFeatIdle /\ InitDb /\ InitPrecip /\ InitWeather /\ InitDeploy /\ InitPrepIdle
                  /\ InitJobsIdle /\ InitFnIdle

SpecPrecip == InitSpecPrecip /\ [][NextPrecip]_vars

InitSpecWeather == InitFeatIdle /\ InitDb /\ InitPrecip /\ InitWeather /\ InitDeploy /\ InitPrepIdle
                  /\ InitJobsIdle /\ InitFnIdle

SpecWeather == InitSpecWeather /\ [][NextWeather]_vars

InitSpecDeploy == InitFeatIdle /\ InitDb /\ InitPrecip /\ InitWeather /\ InitDeploy /\ InitPrepIdle
                  /\ InitJobsIdle /\ InitFnIdle

SpecDeploy == InitSpecDeploy /\ [][NextDeploy]_vars

InitSpecPrep == InitFeatIdle /\ InitDb /\ InitPrecip /\ InitWeather /\ InitDeploy /\ InitPrep
                   /\ InitJobsIdle /\ InitFnIdle

InitSpecJobs == InitFeatIdle /\ InitDb /\ InitPrecip /\ InitWeather /\ InitDeploy
                   /\ InitPrepIdle /\ InitJobs /\ InitFnIdle

SpecJobs == InitSpecJobs /\ [][NextJobs]_vars

SpecPrep == InitSpecPrep /\ [][NextPrep]_vars

InitSpecFn == InitFeatIdle /\ InitDb /\ InitPrecip /\ InitWeather /\ InitDeploy /\ InitPrepIdle
                  /\ InitJobsIdle /\ InitFn

SpecFn == InitSpecFn /\ [][NextFn]_vars

(***************************************************************************)
(* C1. Look-ahead freedom of the observation-derived features.             *)
(***************************************************************************)
ObsCols == {"obs_precip", "obs_temp"}

\* the table with the observation cell (row i, column c) replaced by v
Perturb(tbl, i, c, v) == [tbl EXCEPT ![i] = [@ EXCEPT ![c] = v]]

\* C1: for every row t of the built table, every observation-derived feature
\* of row t is unchanged when an observation at row t or later is replaced:
\* the features of t are computed from observations strictly before t only.
C1_NoLookAhead ==
    feat # <<>> =>
        \A t \in DOMAIN df : \A i \in t..Len(df) : \A c \in ObsCols : \A v \in ObsVals :
            build_feature_set(Perturb(df, i, c, v))[t] = feat[t]

(***************************************************************************)
(* C2, C3. The paired join.                                                *)
(***************************************************************************)
IsLive(f) == f.fetched_at \notin {Backfill, BackfillArchive}

BestMatch(t) == {f \in forecasts : f.source = "best_match" /\ f.valid_time = t}

\* C2: in the frame of load_paired_data each valid time appears at most once,
\* and the forecast side of a row is the stored best_match issue whose
\* fetched_at is the maximum for that valid time.
C2_LatestIssueJoined ==
    paired.loaded =>
        /\ \A i, j \in DOMAIN paired.rows : paired.rows[i].time = paired.rows[j].time => i = j
        /\ \A i \in DOMAIN paired.rows :
              \E f \in BestMatch(paired.rows[i].time) :
                 /\ \A g \in BestMatch(paired.rows[i].time) : ~TextLess(f.fetched_at, g.fetched_at)
                 /\ paired.rows[i].fcst_temp = f.temperature_2m
                 /\ paired.rows[i].lead_hours = f.lead_hours

\* a frame was loaded in which a valid time with two stored issues is joined
C2_Witness ==
    /\ paired.loaded
    /\ \E i \in DOMAIN paired.rows : Cardinality(BestMatch(paired.rows[i].time)) >= 2

\* C3: a valid time that has a live issue is joined to a live issue; a
\* backfilled row is joined only when the valid time has no live issue.
C3_LiveIssuePreferred ==
    paired.loaded =>
        \A i \in DOMAIN paired.rows :
            (\E f \in BestMatch(paired.rows[i].time) : IsLive(f)) =>
                \E f \in BestMatch(paired.rows[i].time) :
                    /\ IsLive(f)
                    /\ paired.rows[i].fcst_temp = f.temperature_2m
                    /\ paired.rows[i].lead_hours = f.lead_hours

(***************************************************************************)
(* C7, C8, C9. PrecipitationPredictor.predict.                             *)
(***************************************************************************)
\* C7: a rain probability returned by predict is the fitted isotonic
\* calibrator's value at the classifier's raw probability, whatever state the
\* predictor was brought into by train, save and load.
C7_ProbabilityCalibrated ==
    ppOut.status = "ok" =>
        /\ pp.calibrator.kind = "fitted"
        /\ ppOut.precip_probability = pp.calibrator.f[ppOut.raw_probs + 1]

\* predict returned on a predictor loaded from a bundle, and the calibrator
\* moved the raw probability
C7_Witness ==
    /\ ppOut.status = "ok"
    /\ ppBundle.exists /\ pp = ppBundle.data
    /\ ppOut.precip_probability # ppOut.raw_probs

\* C8: for a served row precip_expected_mm is precip_probability times
\* precip_if_rain_mm, and precip_if_rain_mm is the regressor's output floored
\* at zero.
C8_ExpectedIsProduct ==
    ppOut.status = "ok" =>
        /\ ppOut.precip_if_rain_mm = (IF ppOut.raw_amount < 0 THEN 0 ELSE ppOut.raw_amount)
        /\ ppOut.precip_expected_mm = ppOut.precip_probability * ppOut.precip_if_rain_mm

\* a row was served with a positive probability and a positive amount
C8_Witness ==
    /\ ppOut.status = "ok"
    /\ ppOut.precip_probability > 0
    /\ ppOut.precip_if_rain_mm > 0

\* C9: every quantile band served is max(raw quantile, 0) times the served
\* probability: it is >= 0, and it is 0 when the served probability is 0.
C9_BandsScaledAndFloored ==
    ppOut.status = "ok" =>
        \A a \in DOMAIN ppOut.bands :
            /\ ppOut.bands[a] =
                  (IF ppOut.raw_q[a] < 0 THEN 0 ELSE ppOut.raw_q[a]) * ppOut.precip_probability
            /\ ppOut.bands[a] >= 0
            /\ ppOut.precip_probability = 0 => ppOut.bands[a] = 0

\* a row was served with all five bands, a negative raw quantile among them,
\* at a positive probability
C9_Witness ==
    /\ ppOut.status = "ok"
    /\ DOMAIN ppOut.bands = Alphas
    /\ ppOut.precip_probability > 0
    /\ \E a \in Alphas : ppOut.raw_q[a] < 0

\* C11: a train call that returns, on a predictor as __init__ left it, has
\* fitted the amount regressor and all five quantile models when the rain
\* rows are at least 100 (exactly 100 included), and none of them when the
\* rain rows are fewer than 100.
C11_AmountStageFromHundredRows ==
    ppTrain.done =>
        IF ppTrain.rain >= 100
        THEN pp.regressor = "fitted" /\ pp.quantile_models = Alphas
        ELSE pp.regressor = "unfitted" /\ pp.quantile_models = {}

(***************************************************************************)
(* C10. WeatherPredictor.predict: physical ranges of the point estimates.  *)
(***************************************************************************)
\* C10: whatever the raw model outputs, a humidity point estimate returned by
\* predict lies in [0, 100] and a wind-speed point estimate is >= 0.
C10_PointEstimatesInRange ==
    wpOut.status = "ok" =>
        /\ "humidity" \in DOMAIN wpOut.point =>
              wpOut.point["humidity"] >= 0 /\ wpOut.point["humidity"] <= 100
        /\ "wind_speed" \in DOMAIN wpOut.point => wpOut.point["wind_speed"] >= 0

\* predict returned humidity and wind speed for raw outputs above 100 and below 0
C10_Witness ==
    /\ wpOut.status = "ok"
    /\ {"humidity", "wind_speed"} \subseteq DOMAIN wpOut.point
    /\ wpOut.raw["humidity"] > 100
    /\ wpOut.raw["wind_speed"] < 0

(***************************************************************************)
(* C12. WeatherPredictor.train: targets with too few labelled rows.        *)
(***************************************************************************)
\* C12: after a train call that returns, on a predictor as __init__ left it,
\* a target is skipped exactly when fewer than 100 training rows have a label
\* for it; every skip is printed with the target and its row count and
\* nothing else is; a skipped target has no entry in models or
\* quantile_models; every other target is fitted, with both the 0.1 and the
\* 0.9 quantile model.
C12_SparseTargetsSkipped ==
    wpTrain.done =>
        /\ \A t \in Targets :
              IF wpTrain.rows[t] < 100
              THEN /\ t \notin wp.models
                   /\ t \notin DOMAIN wp.quantile_models
                   /\ <<t, wpTrain.rows[t]>> \in wpTrain.printed
              ELSE /\ t \in wp.models
                   /\ t \in DOMAIN wp.quantile_models
                   /\ wp.quantile_models[t] = {10, 90}
        /\ \A m \in wpTrain.printed : wpTrain.rows[m[1]] < 100 /\ m[2] = wpTrain.rows[m[1]]

\* a call skipped the first target on 99 rows and fitted a later one on
\* exactly 100
C12_Witness ==
    /\ wpTrain.done
    /\ wpTrain.rows["temperature"] = 99
    /\ wpTrain.rows["wind_speed"] = 100
    /\ "wind_speed" \in wp.models

(***************************************************************************)
(* C4, C5, C6. Training and the bundle files in a deployment.              *)
(***************************************************************************)
TrainingPcs == {"train_load", "train_features", "train_wp", "save_wp_open", "save_wp_close",
                "train_pp", "save_pp_open", "save_pp_close", "train_summary"}

\* C4: a train.main that loaded fewer than 500 paired rows has stopped at the
\* row-count check: it has engineered no features and has opened neither
\* bundle file for writing.
C4_AbortsBelowMinimum ==
    \A p \in WorkerIds :
        (trainRows[p] >= 0 /\ trainRows[p] < 500) =>
            /\ pc[p] = "exited"
            /\ ~featBuilt[p]
            /\ wrote[p] = {}

\* a train.main stopped on 499 paired rows
C4_Witness ==
    \E p \in WorkerIds : pc[p] = "exited" /\ trainRows[p] = 499

\* C5: a bundle load of predict.main never finds a partially written file.
C5_NoPartialBundleRead ==
    \A p \in WorkerIds :
        loaded[p].weather_model # "partial" /\ loaded[p].precip_model # "partial"

\* C6: at most one train.main is running at any time.
C6_SingleTrainingRun ==
    Cardinality({p \in WorkerIds : pc[p] \in TrainingPcs}) <= 1

(***************************************************************************)
(* C13, C14. train.main: the sparse-row filter and the split.              *)
(***************************************************************************)
\* the rows of a table as a set
RowsOf(tbl) == {tbl[i] : i \in DOMAIN tbl}

\* C13: after the sparse-row filter, the rows left are exactly the rows of
\* the engineered table in which at most half of the n feature columns are
\* missing: a row with more than half missing is gone, every other row is
\* kept, for odd n as for even n.
C13_MoreThanHalfMissingDropped ==
    prep.stage \in {"dropped", "split"} =>
        \A r \in RowsOf(prep.built) : r \in RowsOf(prep.df) <=> 2 * r.missing <= prep.n

\* C14: the train slice is the first floor(0.8 * n) rows of the filtered
\* table and the validation slice the rest; no row is in both, every row is
\* in one of them, and every training time is earlier than every validation
\* time.
C14_ChronologicalSplit ==
    prep.stage = "split" =>
        LET k == (8 * Len(prep.df)) \div 10 IN
        /\ Len(prep.train_df) = k
        /\ \A i \in 1..k : prep.train_df[i] = prep.df[i]
        /\ Len(prep.val_df) = Len(prep.df) - k
        /\ \A i \in 1..(Len(prep.df) - k) : prep.val_df[i] = prep.df[k + i]
        /\ RowsOf(prep.train_df) \cap RowsOf(prep.val_df) = {}
        /\ RowsOf(prep.train_df) \cup RowsOf(prep.val_df) = RowsOf(prep.df)
        /\ \A a \in RowsOf(prep.train_df) : \A b \in RowsOf(prep.val_df) : a.time < b.time

\* a table of at least three rows was split, with rows on both sides
C14_Witness ==
    /\ prep.stage = "split"
    /\ Len(prep.df) >= 3
    /\ Len(prep.train_df) >= 2
    /\ Len(prep.val_df) >= 1

C17_UntrainedTargetsNotRead ==
    (job.prog = "predict" /\ Len(job.steps) >= 5) =>
        /\ job.steps[5][2]
        /\ Len(job.steps) >= 8 => job.steps[8][2]

\* C18: a run of predict.main with a bundle file missing raises at the
\* loading of that bundle and leaves latest_forecast.json as it was; and a
\* latest_forecast.json written while a bundle file is missing carries the
\* note "ML models not yet trained".
C18_UntrainedSignalled ==
    [][/\ (job'.prog = "predict" /\ ~(disk.weather_model.exists /\ disk.precip_model.exists))
            => /\ job'.status = "raised"
               /\ job'.steps \in {Ran(PredictSteps, 1, FALSE), Ran(PredictSteps, 2, FALSE)}
               /\ disk'.latest_forecast = disk.latest_forecast
       /\ (/\ disk'.latest_forecast # disk.latest_forecast
           /\ ~(disk'.weather_model.exists /\ disk'.precip_model.exists))
            => disk'.latest_forecast.note]_vars

\* predict.main has raised at the loading of the weather bundle, with no
\* bundle on disk and the raw forecast with its note still in place
C18_Witness ==
    /\ job.prog = "predict"
    /\ job.steps = Ran(PredictSteps, 1, FALSE)
    /\ ~disk.weather_model.exists
    /\ ~disk.precip_model.exists
    /\ disk.latest_forecast.exists
    /\ disk.latest_forecast.note

\* the steps of a run that call the upstream API
FetchSteps == {"fetch_forecast", "fetch_history", "fetch_historical_forecast",
               "fetch_current_forecast"}

\* a fetch of the run recorded in j failed
FetchFailed(j) == \E i \in DOMAIN j.steps : j.steps[i][1] \in FetchSteps /\ ~j.steps[i][2]

\* the run recorded in j made no step after a failed fetch
StoppedAtFailedFetch(j) ==
    \A i \in DOMAIN j.steps :
        (j.steps[i][1] \in FetchSteps /\ ~j.steps[i][2]) => i = Len(j.steps)

C20_RecordsAscendingByTime ==
    (job.prog = "predict" /\ job.status = "ok") =>
        LET hourly == disk.latest_forecast.hourly IN
        /\ Len(hourly) = Len(job.fetched)
        /\ \A i \in DOMAIN hourly : hourly[i] = isoformat(job.fetched[i])
        /\ \A i \in DOMAIN hourly : \A k \in DOMAIN hourly :
              i < k => TextLess(hourly[i], hourly[k])

\* predict.main wrote the records of a window that runs over midnight
C20_Witness ==
    /\ job.prog = "predict"
    /\ job.status = "ok"
    /\ Len(disk.latest_forecast.hourly) >= 2
    /\ \E i \in DOMAIN job.fetched : job.fetched[i] >= 24

(***************************************************************************)
(* C22, C24. What predict returns on a trained predictor.                  *)
(***************************************************************************)
\* C22: whatever the raw outputs of the quantile models, the humidity
\* interval bounds returned by WeatherPredictor.predict lie in [0, 100] and
\* the wind-speed interval bounds are >= 0.
C22_IntervalBoundsInRange ==
    wpOut.status = "ok" =>
        /\ "humidity" \in DOMAIN wpOut.q10 =>
              /\ wpOut.q10["humidity"] >= 0 /\ wpOut.q10["humidity"] <= 100
              /\ wpOut.q90["humidity"] >= 0 /\ wpOut.q90["humidity"] <= 100
        /\ "wind_speed" \in DOMAIN wpOut.q10 =>
              wpOut.q10["wind_speed"] >= 0 /\ wpOut.q90["wind_speed"] >= 0

\* C24: on a predictor whose train call returned (begun on the object as
\* __init__ left it), whatever the number of rain rows, predict does not
\* raise.
C24_PredictAfterReturnedTrain ==
    ppTrain.done => ppOut.status # "raised"

(***************************************************************************)
(* C27, C30. startup.run and the import of wsgi in a deployment.           *)
(***************************************************************************)
\* C27: a train.main of startup.run that ends without having completed
\* ends in the raw-forecast fallback of startup.run, whatever made it fail,
\* the abort on fewer than 500 paired rows included: no failure of training
\* leaves startup.run.
C27_TrainingFailureFallsBack ==
    [][\A p \in WorkerIds :
          (pc[p] \in TrainingPcs /\ pc'[p] \notin TrainingPcs)
             => pc'[p] \in {"predict_load_wp", "raw_fetch"}]_vars

C26_NoPartialForecastRead ==
    \A p \in WorkerIds : loaded[p].latest_forecast # "partial"

(***************************************************************************)
(* C25. The two bundle files between the runs of the programs.             *)
(***************************************************************************)
\* C25: when a run of train.main is over, however it ended, and both bundle
\* files exist, the two files were written by one and the same run of
\* train.main.
C25_BundlesOfOneRun ==
    [][(job'.prog = "train" /\ disk'.weather_model.exists /\ disk'.precip_model.exists)
          => disk'.same_run]_vars

(***************************************************************************)
(* C28. startup.run: the archive fallback of the forecast backfill.        *)
(***************************************************************************)
\* C28: in a startup.run whose historical-forecast backfill got no chunk
\* (every fetch of it failed) the archive fallback was invoked; and the
\* fallback is invoked only after a failed fetch of that backfill.
C28_ArchiveFallbackOnFailedBackfill ==
    job.prog = "startup" =>
        LET failed == {i \in DOMAIN job.steps :
                          job.steps[i] = <<"fetch_historical_forecast", FALSE>>}
            fetched == {i \in DOMAIN job.steps :
                           job.steps[i] = <<"fetch_historical_forecast", TRUE>>}
            fallback == {i \in DOMAIN job.steps :
                            job.steps[i][1] = "backfill_forecasts_from_archive"}
        IN /\ (failed # {} /\ fetched = {}) => fallback # {}
           /\ \A i \in fallback : \E k \in failed : k < i

(***************************************************************************)
(* C23. background._refresh_loop.                                          *)
(***************************************************************************)
\* C23: in a cycle of the refresh loop predict.main runs only right after
\* the collector.main of that cycle returned without an exception; after a
\* collector.main that raised, and after predict.main however it ended,
\* nothing is left of the cycle and the loop is where the next cycle
\* begins.
C23_RefreshCycle ==
    [][job'.caller = "refresh" =>
          /\ job'.prog = "collector" => job.pending = <<>>
          /\ job'.prog = "predict" =>
                job.caller = "refresh" /\ job.prog = "collector" /\ job.status = "ok"
          /\ job'.pending = IF job'.prog = "collector" /\ job'.status = "ok"
                            THEN <<"refresh_predict">>
                            ELSE <<>>]_vars

\* predict.main of a cycle raised (no bundle to load) and the loop is where
\* the next cycle begins
C23_Witness ==
    /\ job.caller = "refresh"
    /\ job.prog = "predict"
    /\ job.status = "raised"
    /\ job.pending = <<>>

\* C29: _chunked_fetch requests every day from start to end in exactly one
\* of its date ranges
C29_EveryDayRequestedOnce ==
    (fn.op = "_chunked_fetch" /\ fn.done) =>
        \A d \in fn.start..fn.end :
            Cardinality({i \in DOMAIN fn.requested :
                            fn.requested[i][1] <= d /\ d <= fn.requested[i][2]}) = 1

\* C21: get_feature_columns returns the names in strictly increasing order,
\* none twice; they are the columns whose name holds "lag_", "roll_" or
\* "bias_", lead_hours when the table has it, and the numeric columns that
\* are not observations; the raw observation is never among them
C21_FeatureColumnSelection ==
    (fn.op = "get_feature_columns" /\ fn.done) =>
        LET out == fn.feature_cols
            N == ColumnNames
            has == DOMAIN fn.columns
            derived == {N.obs_temp_lag_1h, N.obs_roll_3h, N.bias_temp}
            numeric == {c \in has : fn.columns[c] = "float64"}
            expected == (has \cap (derived \cup {N.lead_hours}))
                           \cup (numeric \cap {N.fcst_temp, N.source})
        IN /\ \A i, j \in DOMAIN out : i < j => TextLess(out[i], out[j])
           /\ {out[i] : i \in DOMAIN out} = expected
           /\ \A i \in DOMAIN out : out[i] # N.obs_temp

\* a table with the raw observation as a numeric column, its lag, lead_hours
\* as a non-numeric column and a non-numeric source tag
C21_Witness ==
    /\ fn.op = "get_feature_columns"
    /\ fn.done
    /\ DOMAIN fn.columns = {ColumnNames.obs_temp, ColumnNames.obs_temp_lag_1h,
                            ColumnNames.lead_hours, ColumnNames.source}
    /\ fn.columns[ColumnNames.obs_temp] = "float64"
    /\ fn.columns[ColumnNames.lead_hours] = "object"
    /\ fn.feature_cols = <<ColumnNames.lead_hours, ColumnNames.obs_temp_lag_1h>>

====
